---- MODULE Spec2Model ----
(***************************************************************************)
(* A state-machine model of react-mini-fab's client-side controllers:      *)
(*   - the Draggable position controller (lib/utils/Draggable.tsx),        *)
(*   - the cookie-backed temporary flag (lib/hooks/useTemporaryFlag.ts,    *)
(*     lib/utils/cookie.ts).                                               *)
(*   - the MiniFAB shell (lib/MiniFAB.tsx), alone and with its Draggable.  *)
(* Each React handler or effect is one action; the DOM element, the        *)
(* localStorage and the cookie jar are part of the state.                  *)
(***************************************************************************)
EXTENDS Integers, Sequences, FiniteSets, TLC

\* ------------------------------------------------------------------ bounds

\* Largest pointer coordinate (clientX and clientY lie in 0..MaxCoord).
MaxCoord == 6

\* Clock ticks per second: the resolution of time.
TicksPerSecond == 2

\* The clock stops at MaxTime ticks.
MaxTime == 6

\* setFlag calls one observer makes in a behaviour.
MaxSets == 3

\* Milliseconds the shell's clock advances in one step.
ShellStepMs == 50

\* Timers of the shell that can be pending when its parent changes its side.
MaxPending == 4

\* ---------------------------------------------------------- drag: state

VARIABLES
  innerHeight,           \* window.innerHeight
  offsetHeight,          \* element.offsetHeight
  cssTop,                \* the top the stylesheet gives the element
  styleTop,              \* element.style.top (inline)
  dataDragging,          \* "dragging" in element.dataset
  localStorage,          \* storage key -> stored text
  mounted,               \* the Draggable's effects are live (listeners attached)
  draggableId,           \* props.draggableId
  hasCallback,           \* props.onDragStateChange is supplied
  isDraggingRef,         \* isDraggingRef.current
  dragStartYRef,         \* dragStartYRef.current
  initialTopRef,         \* initialTopRef.current
  mouseDownPositionRef,  \* mouseDownPositionRef.current
  event,                 \* the operation or DOM event handled last
  notified,              \* the onDragStateChange call made by the last step
  storageOps             \* the localStorage methods the last step called

dragVars ==
  << innerHeight, offsetHeight, cssTop, styleTop, dataDragging, localStorage,
     mounted, draggableId, hasCallback, isDraggingRef, dragStartYRef,
     initialTopRef, mouseDownPositionRef, event, notified, storageOps >>

\* ---------------------------------------------------------- flag: state

VARIABLES
  now,            \* Date.now(), in ticks
  cookies,        \* the cookie jar: name -> cookie
  hookMounted,    \* observer -> the useTemporaryFlag instance exists
  hookId,         \* observer -> its id argument
  isActive,       \* observer -> the isActive state
  timeoutIdRef,   \* observer -> timeoutIdRef.current (0 is null)
  timeouts,       \* observer -> its pending setTimeout timers
  intervalDue,    \* observer -> when its setInterval fires next (-1: none)
  setCount,       \* observer -> setTimeout handles it has drawn
  requested,      \* observer -> the expiry its latest setFlag call asked for
  flagEvent       \* the flag operation handled last

flagVars ==
  << now, cookies, hookMounted, hookId, isActive, timeoutIdRef, timeouts,
     intervalDue, setCount, requested, flagEvent >>

\* --------------------------------------------------------- shell: state

VARIABLES
  shellMounted,    \* the <MiniFAB> instance exists
  propsPosition,   \* props.position
  propsIsHide,     \* props.isHide
  hasOnClick,      \* props.onClick is supplied
  initializeHide,  \* the initializeHide state
  overrideHide,    \* the overrideHide state
  hideAnimation,   \* the hideAnimation state
  position,        \* the position state
  shellTimers,     \* the pending setTimeout timers, in the order armed
  clicked,         \* the last step called props.onClick
  shellEvent       \* the shell operation handled last

shellVars ==
  << shellMounted, propsPosition, propsIsHide, hasOnClick, initializeHide,
     overrideHide, hideAnimation, position, shellTimers, clicked, shellEvent >>

vars == << dragVars, flagVars, shellVars >>

\* What the steps of the drag controller, of the flag and of the shell leave
\* alone.
nonDragVars == << flagVars, shellVars >>
nonFlagVars == << dragVars, shellVars >>
nonShellVars == << dragVars, flagVars >>

\* ------------------------------------------------------ drag: JS values

\* Threshold in pixels to distinguish between a drag and a click.
DRAG_THRESHOLD == 5

\* Math.min / Math.max on integers.
MathMin(a, b) == IF a < b THEN a ELSE b
MathMax(a, b) == IF a > b THEN a ELSE b

\* CSS length values of `top`: "<n>px", "auto", or "" (no inline style).
CssPx(n) == [kw |-> "px", n |-> n]
CssAuto == [kw |-> "auto", n |-> 0]
CssUnset == [kw |-> "", n |-> 0]

\* Number.parseFloat of a CSS value: the leading number, or NaN.
ParseFloat(v) == IF v.kw = "px" THEN [nan |-> FALSE, n |-> v.n] ELSE [nan |-> TRUE, n |-> 0]

\* `x || 0` on a number: NaN and 0 are falsy.
OrZero(f) == IF f.nan \/ f.n = 0 THEN 0 ELSE f.n

\* props.draggableId: undefined or a string.
NoId == [defined |-> FALSE, s |-> ""]
Id(s) == [defined |-> TRUE, s |-> s]
IdStrings == {"a", "b"}
DraggableIds == {NoId} \cup {Id(s) : s \in IdStrings}

\* `!draggableId`: undefined and the empty string are falsy.
Falsy(d) == ~d.defined \/ d.s = ""

\* A template literal's text for an id: `${undefined}` is "undefined".
TemplateText(d) == IF d.defined THEN d.s ELSE "undefined"

\* A variant that files every id under one key.
StorageKey_shared(d) == <<"draggable-position-", "a">>

\* `draggable-position-${draggableId}`
StorageKey(d) == <<"draggable-position-", TemplateText(d)>>

StorageKeys == {<<"draggable-position-", TemplateText(d)>> : d \in DraggableIds}

\* Stored texts: no item (getItem gives null), a text that is not JSON, and
\* JSON objects with a numeric y, a non-numeric y, or no y.
NoItem == [kind |-> "null", ytype |-> "", y |-> 0]
NotJson == [kind |-> "text", ytype |-> "", y |-> 0]
JsonY(n) == [kind |-> "json", ytype |-> "number", y |-> n]
JsonStringY == [kind |-> "json", ytype |-> "string", y |-> 0]
JsonNoY == [kind |-> "json", ytype |-> "undefined", y |-> 0]

\* JSON.stringify({ y })
JsonStringify(y) == JsonY(y)

\* JSON.parse followed by the destructuring `const { y } = ...`: throws on a
\* text that is not JSON, otherwise yields y with its type.
JsonParse(text) ==
  IF text.kind = "json"
    THEN [threw |-> FALSE, ytype |-> text.ytype, y |-> text.y]
    ELSE [threw |-> TRUE, ytype |-> "", y |-> 0]

Null == [isNull |-> TRUE, n |-> 0]
Num(n) == [isNull |-> FALSE, n |-> n]

\* --------------------------------------------------- drag: pure functions

\* A variant without the lower bound (Math.min(y, maxY)).
clampYPosition_noFloor(y) ==
  LET maxY == innerHeight - offsetHeight
  IN  MathMin(y, maxY)

clampYPosition(y) ==
  LET maxY == innerHeight - offsetHeight
  IN  MathMin(MathMax(0, y), maxY)

\* A variant that does not check the type of y.
loadPositionFromStorage_anyY(store, d) ==
  LET savedPosition == store[StorageKey(d)]
  IN  IF savedPosition.kind = "null"
        THEN Null
        ELSE LET parsed == JsonParse(savedPosition)
             IN  IF parsed.threw THEN Null ELSE Num(parsed.y)

loadPositionFromStorage(store, d) ==
  LET savedPosition == store[StorageKey(d)]
  IN  IF savedPosition.kind = "null"
        THEN Null
        ELSE LET parsed == JsonParse(savedPosition)
             IN  IF parsed.threw
                   THEN Null
                   ELSE IF parsed.ytype = "number" THEN Num(parsed.y) ELSE Null

savePositionToStorage(store, d, y) ==
  [store EXCEPT ![StorageKey(d)] = JsonStringify(y)]

\* A variant that measures the vertical travel only.
calculateDragDistance_verticalOnly(startX, startY, endX, endY) ==
  LET deltaY == endY - startY
  IN  [sqrtOf |-> deltaY * deltaY]

\* The distance is Math.sqrt(deltaX^2 + deltaY^2), kept exactly as the number
\* under the root.
calculateDragDistance(startX, startY, endX, endY) ==
  LET deltaX == endX - startX
      deltaY == endY - startY
  IN  [sqrtOf |-> deltaX * deltaX + deltaY * deltaY]

\* `distance > threshold` for a distance sqrt(n) and a threshold >= 0.
SqrtGreater(dist, threshold) == dist.sqrtOf > threshold * threshold

\* window.getComputedStyle(element).top: the inline style wins.
ComputedTop(inline) == IF inline.kw = "" THEN cssTop ELSE inline

getCurrentTop(inline) == OrZero(ParseFloat(ComputedTop(inline)))

\* ------------------------------------------------------- drag: inputs

\* Where the pointer can be: the origin, the point at distance exactly 5 from
\* it, and the far ends of both axes.
Pointers ==
  { [x |-> 0, y |-> 0], [x |-> 3, y |-> 4],
    [x |-> MaxCoord, y |-> 0], [x |-> 0, y |-> MaxCoord] }

\* Viewport height, element height and stylesheet top of the scenarios: an
\* element that fits (top: auto, or a top below the viewport) and one taller
\* than the viewport.
Geometries ==
  { [ih |-> MaxCoord - 1, oh |-> 2, css |-> CssAuto],
    [ih |-> MaxCoord - 1, oh |-> 2, css |-> CssPx(MaxCoord + 2)],
    [ih |-> MaxCoord - 1, oh |-> MaxCoord + 1, css |-> CssAuto] }

\* What localStorage may hold for a key before the page loads.
StoredItems ==
  {NoItem, NotJson, JsonStringY, JsonNoY, JsonY(-2), JsonY(1), JsonY(MaxCoord + 3)}
InitialStorages ==
  { [k \in StorageKeys |->
       IF k = StorageKey(Id("a")) THEN i
       ELSE IF k = StorageKey(Id("b")) THEN JsonY(1) ELSE NoItem] :
      i \in StoredItems }

Ev(type, x, y) == [type |-> type, x |-> x, y |-> y]
NoCall == [called |-> FALSE, wasDragged |-> FALSE]
Call(b) == [called |-> TRUE, wasDragged |-> b]

\* ------------------------------------------------------ drag: operations

DragInit ==
  /\ \E g \in Geometries :
       innerHeight = g.ih /\ offsetHeight = g.oh /\ cssTop = g.css
  /\ styleTop = CssUnset
  /\ dataDragging = FALSE
  /\ localStorage \in InitialStorages
  /\ mounted = FALSE
  /\ draggableId = NoId
  /\ hasCallback = FALSE
  /\ isDraggingRef = FALSE
  /\ dragStartYRef = 0
  /\ initialTopRef = 0
  /\ mouseDownPositionRef = [x |-> 0, y |-> 0]
  /\ event = Ev("init", 0, 0)
  /\ notified = NoCall
  /\ storageOps = {}

\* A variant that applies the clamped offset without saving it again.
useInitialPosition_noRewrite(d, inline) ==
  IF Falsy(d)
    THEN styleTop' = inline /\ storageOps' = {} /\ UNCHANGED localStorage
    ELSE LET savedY == loadPositionFromStorage(localStorage, d)
         IN  /\ styleTop' = IF savedY.isNull THEN inline
                             ELSE CssPx(clampYPosition(savedY.n))
             /\ storageOps' = {"getItem"}
             /\ UNCHANGED localStorage

\* The effect of useInitialPosition for draggableId d on an element whose
\* inline top is `inline`.
useInitialPosition(d, inline) ==
  IF Falsy(d)
    THEN styleTop' = inline /\ storageOps' = {} /\ UNCHANGED localStorage
    ELSE LET savedY == loadPositionFromStorage(localStorage, d)
         IN  IF savedY.isNull
               THEN /\ styleTop' = inline
                    /\ storageOps' = {"getItem"}
                    /\ UNCHANGED localStorage
               ELSE LET clampedY == clampYPosition(savedY.n)
                    IN  /\ styleTop' = CssPx(clampedY)
                        /\ IF clampedY # savedY.n
                             THEN /\ localStorage' =
                                       savePositionToStorage(localStorage, d, clampedY)
                                  /\ storageOps' = {"getItem", "setItem"}
                             ELSE /\ UNCHANGED localStorage
                                  /\ storageOps' = {"getItem"}

\* <Draggable> mounts: fresh refs, then both effects run. The target element
\* is either a new one (fresh) or the one a previous Draggable was bound to.
DraggableMount(d, cb, fresh) ==
  /\ ~mounted
  /\ mounted' = TRUE
  /\ draggableId' = d
  /\ hasCallback' = cb
  /\ isDraggingRef' = FALSE
  /\ dragStartYRef' = 0
  /\ initialTopRef' = 0
  /\ mouseDownPositionRef' = [x |-> 0, y |-> 0]
  /\ dataDragging' = IF fresh THEN FALSE ELSE dataDragging
  /\ useInitialPosition(d, IF fresh THEN CssUnset ELSE styleTop)
  /\ event' = Ev("mount", 0, 0)
  /\ notified' = NoCall
  /\ UNCHANGED << innerHeight, offsetHeight, cssTop >>

\* A <Draggable> of its own mounts.
Mount(d, cb, fresh) ==
  /\ DraggableMount(d, cb, fresh)
  /\ UNCHANGED nonDragVars

\* props.draggableId changes: both effects are cleaned up and run again.
SetDraggableId(d) ==
  /\ mounted
  /\ d # draggableId
  /\ draggableId' = d
  /\ useInitialPosition(d, styleTop)
  /\ event' = Ev("props", 0, 0)
  /\ notified' = NoCall
  /\ UNCHANGED << innerHeight, offsetHeight, cssTop, dataDragging, mounted,
                  hasCallback, isDraggingRef, dragStartYRef, initialTopRef,
                  mouseDownPositionRef >>
  /\ UNCHANGED nonDragVars

\* props.onDragStateChange changes: the handlers are re-attached.
SetCallback(cb) ==
  /\ mounted
  /\ cb # hasCallback
  /\ hasCallback' = cb
  /\ event' = Ev("props", 0, 0)
  /\ notified' = NoCall
  /\ storageOps' = {}
  /\ UNCHANGED << innerHeight, offsetHeight, cssTop, styleTop, dataDragging,
                  localStorage, mounted, draggableId, isDraggingRef,
                  dragStartYRef, initialTopRef, mouseDownPositionRef >>
  /\ UNCHANGED nonDragVars

\* A variant whose cleanup removes no listener.
DraggableUnmount_keepsListeners ==
  /\ mounted
  /\ event' = Ev("unmount", 0, 0)
  /\ notified' = NoCall
  /\ storageOps' = {}
  /\ UNCHANGED << innerHeight, offsetHeight, cssTop, styleTop, dataDragging,
                  localStorage, mounted, draggableId, hasCallback, isDraggingRef,
                  dragStartYRef, initialTopRef, mouseDownPositionRef >>

\* <Draggable> unmounts: the effect cleanup removes the three listeners, and
\* the component's props and refs cease to exist (they read as at creation).
DraggableUnmount ==
  /\ mounted
  /\ mounted' = FALSE
  /\ draggableId' = NoId
  /\ hasCallback' = FALSE
  /\ isDraggingRef' = FALSE
  /\ dragStartYRef' = 0
  /\ initialTopRef' = 0
  /\ mouseDownPositionRef' = [x |-> 0, y |-> 0]
  /\ event' = Ev("unmount", 0, 0)
  /\ notified' = NoCall
  /\ storageOps' = {}
  /\ UNCHANGED << innerHeight, offsetHeight, cssTop, styleTop, dataDragging,
                  localStorage >>

\* A <Draggable> of its own unmounts.
Unmount ==
  /\ DraggableUnmount
  /\ UNCHANGED nonDragVars

handleMouseDown(x, y) ==
  /\ isDraggingRef' = TRUE
  /\ initialTopRef' = getCurrentTop(styleTop)
  /\ dragStartYRef' = y
  /\ mouseDownPositionRef' = [x |-> x, y |-> y]
  /\ dataDragging' = TRUE
  /\ notified' = NoCall
  /\ storageOps' = {}
  /\ UNCHANGED << styleTop, localStorage >>

\* A variant that applies the new top without clamping it.
handleMouseMove_unclamped(x, y) ==
  /\ IF ~isDraggingRef
       THEN UNCHANGED styleTop
       ELSE styleTop' = CssPx(initialTopRef + (y - dragStartYRef))
  /\ notified' = NoCall
  /\ storageOps' = {}
  /\ UNCHANGED << dataDragging, localStorage, isDraggingRef, dragStartYRef,
                  initialTopRef, mouseDownPositionRef >>

\* A variant that follows the pointer outside a gesture too.
handleMouseMove_ignoresIdle(x, y) ==
  /\ LET deltaY == y - dragStartYRef
         newTop == initialTopRef + deltaY
         clampedTop == clampYPosition(newTop)
     IN  styleTop' = CssPx(clampedTop)
  /\ notified' = NoCall
  /\ storageOps' = {}
  /\ UNCHANGED << dataDragging, localStorage, isDraggingRef, dragStartYRef,
                  initialTopRef, mouseDownPositionRef >>

handleMouseMove(x, y) ==
  /\ IF ~isDraggingRef
       THEN UNCHANGED styleTop
       ELSE LET deltaY == y - dragStartYRef
                newTop == initialTopRef + deltaY
                clampedTop == clampYPosition(newTop)
            IN  styleTop' = CssPx(clampedTop)
  /\ notified' = NoCall
  /\ storageOps' = {}
  /\ UNCHANGED << dataDragging, localStorage, isDraggingRef, dragStartYRef,
                  initialTopRef, mouseDownPositionRef >>

\* A variant that saves the pointer's position, unclamped, rather than the
\* element's top.
handleMouseUp_savesRaw(x, y) ==
  /\ IF ~isDraggingRef
       THEN /\ notified' = NoCall
            /\ storageOps' = {}
            /\ UNCHANGED << isDraggingRef, dataDragging, localStorage >>
       ELSE /\ isDraggingRef' = FALSE
            /\ dataDragging' = FALSE
            /\ notified' =
                 IF hasCallback
                   THEN Call(SqrtGreater(calculateDragDistance(mouseDownPositionRef.x,
                                           mouseDownPositionRef.y, x, y), DRAG_THRESHOLD))
                   ELSE NoCall
            /\ IF ~Falsy(draggableId)
                 THEN /\ localStorage' =
                           savePositionToStorage(localStorage, draggableId,
                                                 initialTopRef + (y - dragStartYRef))
                      /\ storageOps' = {"setItem"}
                 ELSE /\ UNCHANGED localStorage
                      /\ storageOps' = {}
  /\ UNCHANGED << styleTop, dragStartYRef, initialTopRef, mouseDownPositionRef >>

\* A variant that saves whether or not a draggableId is given.
handleMouseUp_alwaysSaves(x, y) ==
  /\ IF ~isDraggingRef
       THEN /\ notified' = NoCall
            /\ storageOps' = {}
            /\ UNCHANGED << isDraggingRef, dataDragging, localStorage >>
       ELSE /\ isDraggingRef' = FALSE
            /\ dataDragging' = FALSE
            /\ notified' =
                 IF hasCallback
                   THEN Call(SqrtGreater(calculateDragDistance(mouseDownPositionRef.x,
                                           mouseDownPositionRef.y, x, y), DRAG_THRESHOLD))
                   ELSE NoCall
            /\ localStorage' =
                 savePositionToStorage(localStorage, draggableId, getCurrentTop(styleTop))
            /\ storageOps' = {"setItem"}
  /\ UNCHANGED << styleTop, dragStartYRef, initialTopRef, mouseDownPositionRef >>

\* A variant without the isDraggingRef guard: every mouseup clears the
\* indicator and saves the element's top when a draggableId is given.
handleMouseUp_unguarded(x, y) ==
  /\ isDraggingRef' = FALSE
  /\ dataDragging' = FALSE
  /\ LET dragDistance ==
           calculateDragDistance(mouseDownPositionRef.x,
                                 mouseDownPositionRef.y, x, y)
         wasDragged == SqrtGreater(dragDistance, DRAG_THRESHOLD)
     IN  notified' = IF hasCallback /\ isDraggingRef THEN Call(wasDragged) ELSE NoCall
  /\ IF ~Falsy(draggableId)
       THEN LET currentTop == getCurrentTop(styleTop)
            IN  /\ localStorage' =
                     savePositionToStorage(localStorage, draggableId, currentTop)
                /\ storageOps' = {"setItem"}
       ELSE /\ UNCHANGED localStorage
            /\ storageOps' = {}
  /\ UNCHANGED << styleTop, dragStartYRef, initialTopRef, mouseDownPositionRef >>

\* A variant that reports a click for a pointer-up outside a gesture.
handleMouseUp_notifiesIdle(x, y) ==
  /\ IF ~isDraggingRef
       THEN /\ notified' = IF hasCallback THEN Call(FALSE) ELSE NoCall
            /\ storageOps' = {}
            /\ UNCHANGED << isDraggingRef, dataDragging, localStorage >>
       ELSE /\ isDraggingRef' = FALSE
            /\ dataDragging' = FALSE
            /\ LET dragDistance ==
                     calculateDragDistance(mouseDownPositionRef.x,
                                           mouseDownPositionRef.y, x, y)
                   wasDragged == SqrtGreater(dragDistance, DRAG_THRESHOLD)
               IN  notified' = IF hasCallback THEN Call(wasDragged) ELSE NoCall
            /\ IF ~Falsy(draggableId)
                 THEN LET currentTop == getCurrentTop(styleTop)
                      IN  /\ localStorage' =
                               savePositionToStorage(localStorage, draggableId, currentTop)
                          /\ storageOps' = {"setItem"}
                 ELSE /\ UNCHANGED localStorage
                      /\ storageOps' = {}
  /\ UNCHANGED << styleTop, dragStartYRef, initialTopRef, mouseDownPositionRef >>

handleMouseUp(x, y) ==
  /\ IF ~isDraggingRef
       THEN /\ notified' = NoCall
            /\ storageOps' = {}
            /\ UNCHANGED << isDraggingRef, dataDragging, localStorage >>
       ELSE /\ isDraggingRef' = FALSE
            /\ dataDragging' = FALSE
            /\ LET dragDistance ==
                     calculateDragDistance(mouseDownPositionRef.x,
                                           mouseDownPositionRef.y, x, y)
                   wasDragged == SqrtGreater(dragDistance, DRAG_THRESHOLD)
               IN  notified' = IF hasCallback THEN Call(wasDragged) ELSE NoCall
            /\ IF ~Falsy(draggableId)
                 THEN LET currentTop == getCurrentTop(styleTop)
                      IN  /\ localStorage' =
                               savePositionToStorage(localStorage, draggableId, currentTop)
                          /\ storageOps' = {"setItem"}
                 ELSE /\ UNCHANGED localStorage
                      /\ storageOps' = {}
  /\ UNCHANGED << styleTop, dragStartYRef, initialTopRef, mouseDownPositionRef >>

\* A DOM event with no listener attached changes nothing.
NoListener ==
  /\ notified' = NoCall
  /\ storageOps' = {}
  /\ UNCHANGED << styleTop, dataDragging, localStorage, isDraggingRef,
                  dragStartYRef, initialTopRef, mouseDownPositionRef >>

\* mousedown dispatched on the element.
MouseDown(x, y) ==
  /\ event' = Ev("mousedown", x, y)
  /\ IF mounted THEN handleMouseDown(x, y) ELSE NoListener
  /\ UNCHANGED << innerHeight, offsetHeight, cssTop, mounted, draggableId, hasCallback >>
  /\ UNCHANGED nonDragVars

\* mousemove dispatched on the document.
MouseMove(x, y) ==
  /\ event' = Ev("mousemove", x, y)
  /\ IF mounted THEN handleMouseMove(x, y) ELSE NoListener
  /\ UNCHANGED << innerHeight, offsetHeight, cssTop, mounted, draggableId, hasCallback >>
  /\ UNCHANGED nonDragVars

\* A variant whose mouseup listener is on the element: it hears a mouseup only
\* when the pointer is over the element.
MouseUp_onElement(x, y) ==
  /\ event' = Ev("mouseup", x, y)
  /\ IF /\ mounted
        /\ getCurrentTop(styleTop) <= y
        /\ y < getCurrentTop(styleTop) + offsetHeight
       THEN handleMouseUp(x, y)
       ELSE NoListener
  /\ UNCHANGED << innerHeight, offsetHeight, cssTop, mounted, draggableId, hasCallback >>
  /\ UNCHANGED nonDragVars

\* mouseup dispatched on the document.
MouseUp(x, y) ==
  /\ event' = Ev("mouseup", x, y)
  /\ IF mounted THEN handleMouseUp(x, y) ELSE NoListener
  /\ UNCHANGED << innerHeight, offsetHeight, cssTop, mounted, draggableId, hasCallback >>
  /\ UNCHANGED nonDragVars

\* ------------------------------------------------------ flag: JS values

\* The polling period of checkCookie, in milliseconds.
CHECK_INTERVAL_MS == 1000

\* The polling period in ticks.
PollTicks == (CHECK_INTERVAL_MS * TicksPerSecond) \div 1000

Observers == {"o1", "o2"}
FlagIds == {"f", "g"}

\* Date.prototype.toUTCString: the text names the second, not the millisecond.
ToUTCString(t) == [seconds |-> t \div TicksPerSecond]

\* The instant a cookie's expires attribute names.
ParseCookieDate(text) == text.seconds * TicksPerSecond

NoCookie == [present |-> FALSE, value |-> "", expires |-> 0]
Cookie(value, expires) == [present |-> TRUE, value |-> value, expires |-> expires]

\* Assigning `${name}=${value}; expires=${expiresString}; ...` to
\* document.cookie: the cookie is stored, or removed when the date is not in
\* the future.
AssignDocumentCookie(jar, name, value, expiresString) ==
  LET expiry == ParseCookieDate(expiresString)
  IN  [jar EXCEPT ![name] = IF expiry <= now THEN NoCookie ELSE Cookie(value, expiry)]

\* Reading document.cookie lists the cookies that have not expired.
InDocumentCookie(c) == c.present /\ now < c.expires

Undefined == [found |-> FALSE, value |-> ""]
Found(value) == [found |-> TRUE, value |-> value]

\* Date.prototype.getTime / Date.now in milliseconds at clock reading t; the
\* page loads one second after the epoch.
GetTime(t) == ((TicksPerSecond + t) * 1000) \div TicksPerSecond

\* The decimal numerals a cookie value can be: the sentinel and the instants
\* of the clock.
Numerals == {1} \cup {GetTime(t) : t \in 0..MaxTime}

\* Number.parseInt(text, 10): the number a numeral denotes, NaN otherwise.
ParseInt(text) ==
  LET denoted == {n \in Numerals : ToString(n) = text}
  IN  IF denoted = {}
        THEN [nan |-> TRUE, n |-> 0]
        ELSE [nan |-> FALSE, n |-> CHOOSE n \in denoted : TRUE]

\* --------------------------------------------------- flag: pure functions

getCookie(jar, name) ==
  IF InDocumentCookie(jar[name]) THEN Found(jar[name].value) ELSE Undefined

\* A variant that files the value under every name.
setCookie_everyName(jar, name, value, expires) ==
  [n \in DOMAIN jar |->
     AssignDocumentCookie(jar, n, value, ToUTCString(expires))[n]]

setCookie(jar, name, value, expires) ==
  LET expiresString == ToUTCString(expires)
  IN  AssignDocumentCookie(jar, name, value, expiresString)

\* `cookieValue === "1"`
IsOne(cookieValue) == cookieValue.found /\ cookieValue.value = "1"

\* clearTimeout(handle) on a set of pending timers.
clearTimeout(pending, handle) == {t \in pending : t.h # handle}

\* ------------------------------------------------------- flag: inputs

ExpireTimes == 0..MaxTime

\* The cookie jar before the page loads: no cookie, a flag cookie that lasts
\* two seconds, or a cookie of another value.
InitialCookies ==
  {NoCookie, Cookie("1", 2 * TicksPerSecond), Cookie("invalid", 2 * TicksPerSecond)}
InitialJars ==
  { [n \in FlagIds |-> IF n = "f" THEN c ELSE NoCookie] : c \in InitialCookies }

\* What the caller last asked of an observer: an expiry in the future (with
\* the expiry it replaced, if that had not passed yet, else -1), or nothing.
NoRequest == [valid |-> FALSE, expireAt |-> 0, replaced |-> -1]
Request(e, replaced) == [valid |-> TRUE, expireAt |-> e, replaced |-> replaced]
FlagEv(type, o, arg) == [type |-> type, o |-> o, arg |-> arg]

\* ------------------------------------------------------ flag: operations

FlagInit ==
  /\ now = 0
  /\ cookies \in InitialJars
  /\ hookMounted = [o \in Observers |-> FALSE]
  /\ hookId = [o \in Observers |-> ""]
  /\ isActive = [o \in Observers |-> FALSE]
  /\ timeoutIdRef = [o \in Observers |-> 0]
  /\ timeouts = [o \in Observers |-> {}]
  /\ intervalDue = [o \in Observers |-> -1]
  /\ setCount = [o \in Observers |-> 0]
  /\ requested = [o \in Observers |-> NoRequest]
  /\ flagEvent = FlagEv("init", "", 0)

\* The first render of useTemporaryFlag(id) and its effect.
FlagMount(o, id) ==
  /\ ~hookMounted[o]
  /\ hookMounted' = [hookMounted EXCEPT ![o] = TRUE]
  /\ hookId' = [hookId EXCEPT ![o] = id]
  /\ LET initial == IsOne(getCookie(cookies, id))
     IN  /\ isActive' = [isActive EXCEPT ![o] = initial]
         /\ intervalDue' = [intervalDue EXCEPT ![o] = IF initial THEN now + PollTicks ELSE -1]
  /\ timeoutIdRef' = [timeoutIdRef EXCEPT ![o] = 0]
  /\ requested' = [requested EXCEPT ![o] = NoRequest]
  /\ flagEvent' = FlagEv("mount", o, 0)
  /\ UNCHANGED << now, cookies, timeouts, setCount >>
  /\ UNCHANGED nonFlagVars

\* A variant whose cleanup stops the polling only.
FlagUnmount_leavesTimeout(o) ==
  /\ hookMounted[o]
  /\ hookMounted' = [hookMounted EXCEPT ![o] = FALSE]
  /\ hookId' = [hookId EXCEPT ![o] = ""]
  /\ isActive' = [isActive EXCEPT ![o] = FALSE]
  /\ intervalDue' = [intervalDue EXCEPT ![o] = -1]
  /\ timeoutIdRef' = [timeoutIdRef EXCEPT ![o] = 0]
  /\ requested' = [requested EXCEPT ![o] = NoRequest]
  /\ flagEvent' = FlagEv("unmount", o, Cardinality(timeouts[o]))
  /\ UNCHANGED << now, cookies, timeouts, setCount >>
  /\ UNCHANGED nonFlagVars

\* The component unmounts: the effect's cleanup runs if the effect had set the
\* polling up, and the instance's state ceases to exist. The event records how
\* many timeouts were pending before.
FlagUnmount(o) ==
  /\ hookMounted[o]
  /\ hookMounted' = [hookMounted EXCEPT ![o] = FALSE]
  /\ hookId' = [hookId EXCEPT ![o] = ""]
  /\ isActive' = [isActive EXCEPT ![o] = FALSE]
  /\ intervalDue' = [intervalDue EXCEPT ![o] = -1]
  /\ timeouts' =
       [timeouts EXCEPT ![o] =
          IF isActive[o] /\ timeoutIdRef[o] # 0
            THEN clearTimeout(timeouts[o], timeoutIdRef[o])
            ELSE timeouts[o]]
  /\ timeoutIdRef' = [timeoutIdRef EXCEPT ![o] = 0]
  /\ requested' = [requested EXCEPT ![o] = NoRequest]
  /\ flagEvent' = FlagEv("unmount", o, Cardinality(timeouts[o]))
  /\ UNCHANGED << now, cookies, setCount >>
  /\ UNCHANGED nonFlagVars

\* A variant that arms the new timeout without clearing the one pending.
setFlag_keepsOldTimeout(o, expireTime) ==
  LET expirationTime == expireTime
      timeUntilExpiration == expirationTime - now
      handle == setCount[o] + 1
  IN  /\ cookies' = setCookie(cookies, hookId[o], "1", expireTime)
      /\ isActive' = [isActive EXCEPT ![o] = TRUE]
      /\ IF timeUntilExpiration > 0
           THEN /\ timeouts' = [timeouts EXCEPT ![o] =
                                  @ \cup {[h |-> handle, due |-> now + timeUntilExpiration]}]
                /\ timeoutIdRef' = [timeoutIdRef EXCEPT ![o] = handle]
                /\ setCount' = [setCount EXCEPT ![o] = handle]
           ELSE UNCHANGED << timeouts, timeoutIdRef, setCount >>
      /\ intervalDue' = [intervalDue EXCEPT ![o] =
                           IF isActive[o] THEN intervalDue[o] ELSE now + PollTicks]

\* setFlag(expireTime), the re-render it causes and the effect of that render.
setFlag(o, expireTime) ==
  LET cleared == IF timeoutIdRef[o] # 0
                   THEN clearTimeout(timeouts[o], timeoutIdRef[o])
                   ELSE timeouts[o]
      expirationTime == expireTime
      timeUntilExpiration == expirationTime - now
      handle == setCount[o] + 1
  IN  /\ cookies' = setCookie(cookies, hookId[o], "1", expireTime)
      /\ isActive' = [isActive EXCEPT ![o] = TRUE]
      /\ IF timeUntilExpiration > 0
           THEN /\ timeouts' = [timeouts EXCEPT ![o] =
                                  cleared \cup {[h |-> handle, due |-> now + timeUntilExpiration]}]
                /\ timeoutIdRef' = [timeoutIdRef EXCEPT ![o] = handle]
                /\ setCount' = [setCount EXCEPT ![o] = handle]
           ELSE /\ timeouts' = [timeouts EXCEPT ![o] = cleared]
                /\ UNCHANGED << timeoutIdRef, setCount >>
      /\ intervalDue' = [intervalDue EXCEPT ![o] =
                           IF isActive[o] THEN intervalDue[o] ELSE now + PollTicks]

\* The caller calls setFlag.
SetFlag(o, expireTime) ==
  /\ hookMounted[o]
  /\ setCount[o] < MaxSets
  /\ setFlag(o, expireTime)
  /\ requested' = [requested EXCEPT ![o] =
                     IF expireTime > now
                       THEN Request(expireTime,
                                    IF requested[o].valid /\ now < requested[o].expireAt
                                      THEN requested[o].expireAt ELSE -1)
                       ELSE NoRequest]
  /\ flagEvent' = FlagEv("setFlag", o, expireTime)
  /\ UNCHANGED << now, hookMounted, hookId >>
  /\ UNCHANGED nonFlagVars

\* The component renders with another id: the effect's cleanup runs if the
\* effect had set the polling up (it clears the interval and the timeout of
\* timeoutIdRef, which keeps its handle), then the effect runs for the new id.
\* The isActive state is kept: its initializer ran at the first render only.
ChangeId(o, id) ==
  /\ hookMounted[o]
  /\ id # hookId[o]
  /\ hookId' = [hookId EXCEPT ![o] = id]
  /\ timeouts' =
       [timeouts EXCEPT ![o] =
          IF isActive[o] /\ timeoutIdRef[o] # 0
            THEN clearTimeout(timeouts[o], timeoutIdRef[o])
            ELSE timeouts[o]]
  /\ intervalDue' = [intervalDue EXCEPT ![o] = IF isActive[o] THEN now + PollTicks ELSE -1]
  /\ requested' = [requested EXCEPT ![o] = NoRequest]
  /\ flagEvent' = FlagEv("id", o, 0)
  /\ UNCHANGED << now, cookies, hookMounted, isActive, timeoutIdRef, setCount >>
  /\ UNCHANGED nonFlagVars

\* A variant whose re-render leaves the polling interval running.
TimeoutFire_keepsPolling(o) ==
  /\ \E t \in timeouts[o] :
       /\ t.due <= now
       /\ timeouts' = [timeouts EXCEPT ![o] = timeouts[o] \ {t}]
       /\ flagEvent' = FlagEv("timeout", o, t.due)
  /\ isActive' = [isActive EXCEPT ![o] = FALSE]
  /\ timeoutIdRef' = [timeoutIdRef EXCEPT ![o] = 0]
  /\ UNCHANGED << now, cookies, hookMounted, hookId, setCount, requested, intervalDue >>
  /\ UNCHANGED nonFlagVars

\* The setTimeout callback of setFlag runs, then the re-render's effect cleanup.
TimeoutFire(o) ==
  /\ \E t \in timeouts[o] :
       /\ t.due <= now
       /\ timeouts' = [timeouts EXCEPT ![o] = timeouts[o] \ {t}]
       /\ flagEvent' = FlagEv("timeout", o, t.due)
  /\ isActive' = [isActive EXCEPT ![o] = FALSE]
  /\ timeoutIdRef' = [timeoutIdRef EXCEPT ![o] = 0]
  /\ intervalDue' = [intervalDue EXCEPT ![o] = -1]
  /\ UNCHANGED << now, cookies, hookMounted, hookId, setCount, requested >>
  /\ UNCHANGED nonFlagVars

\* A variant that never looks at the cookie.
checkCookie_blind(o) ==
  /\ intervalDue' = [intervalDue EXCEPT ![o] = intervalDue[o] + PollTicks]
  /\ UNCHANGED << isActive, timeouts, timeoutIdRef >>

\* A variant that turns the flag off and leaves the timeout pending.
checkCookie_keepsTimeout(o) ==
  LET cookieValue == getCookie(cookies, hookId[o])
  IN  IF ~IsOne(cookieValue)
        THEN /\ isActive' = [isActive EXCEPT ![o] = FALSE]
             /\ intervalDue' = [intervalDue EXCEPT ![o] = -1]
             /\ UNCHANGED << timeouts, timeoutIdRef >>
        ELSE /\ intervalDue' = [intervalDue EXCEPT ![o] = intervalDue[o] + PollTicks]
             /\ UNCHANGED << isActive, timeouts, timeoutIdRef >>

\* checkCookie, and the effect cleanup when it turned the flag off.
checkCookie(o) ==
  LET cookieValue == getCookie(cookies, hookId[o])
  IN  IF ~IsOne(cookieValue)
        THEN /\ isActive' = [isActive EXCEPT ![o] = FALSE]
             /\ timeouts' = [timeouts EXCEPT ![o] =
                               IF timeoutIdRef[o] # 0
                                 THEN clearTimeout(timeouts[o], timeoutIdRef[o])
                                 ELSE timeouts[o]]
             /\ timeoutIdRef' = [timeoutIdRef EXCEPT ![o] = 0]
             /\ intervalDue' = [intervalDue EXCEPT ![o] = -1]
        ELSE /\ intervalDue' = [intervalDue EXCEPT ![o] = intervalDue[o] + PollTicks]
             /\ UNCHANGED << isActive, timeouts, timeoutIdRef >>

\* The setInterval timer of the polling effect fires. The event records how
\* many timeouts were pending before.
PollFire(o) ==
  /\ intervalDue[o] # -1
  /\ intervalDue[o] <= now
  /\ checkCookie(o)
  /\ flagEvent' = FlagEv("poll", o, Cardinality(timeouts[o]))
  /\ UNCHANGED << now, cookies, hookMounted, hookId, setCount, requested >>
  /\ UNCHANGED nonFlagVars

\* A timer that is due runs before the clock moves on.
TimerDue ==
  \E o \in Observers :
    \/ \E t \in timeouts[o] : t.due <= now
    \/ intervalDue[o] # -1 /\ intervalDue[o] <= now

\* Time passes.
Tick ==
  /\ now < MaxTime
  /\ ~TimerDue
  /\ now' = now + 1
  /\ flagEvent' = FlagEv("tick", "", 0)
  /\ UNCHANGED << cookies, hookMounted, hookId, isActive, timeoutIdRef, timeouts,
                  intervalDue, setCount, requested >>
  /\ UNCHANGED nonFlagVars

\* ------------------------------------------- flag: other actors and resync

\* The cookies another actor writes: the sentinel, a timestamp two seconds
\* ahead, the timestamp of the page's load and a text that is no number, each
\* with an expires date two seconds after the page's load.
ExternalValues ==
  {"1", ToString(GetTime(2 * TicksPerSecond)), ToString(GetTime(0)), "invalid"}

\* Another actor assigns `${id}=${value}; expires=...` to document.cookie.
ExternalWrite(id, value) ==
  /\ now < 2 * TicksPerSecond
  /\ cookies' = AssignDocumentCookie(cookies, id, value, ToUTCString(2 * TicksPerSecond))
  /\ flagEvent' = FlagEv("write", id, 0)
  /\ UNCHANGED << now, hookMounted, hookId, isActive, timeoutIdRef, timeouts,
                  intervalDue, setCount, requested >>
  /\ UNCHANGED nonFlagVars

\* Another actor assigns `${id}=; expires=Thu, 01 Jan 1970 00:00:00 GMT`.
ExternalDelete(id) ==
  /\ cookies[id] # NoCookie
  /\ cookies' = [cookies EXCEPT ![id] = NoCookie]
  /\ flagEvent' = FlagEv("delete", id, 0)
  /\ UNCHANGED << now, hookMounted, hookId, isActive, timeoutIdRef, timeouts,
                  intervalDue, setCount, requested >>
  /\ UNCHANGED nonFlagVars

\* A variant that only ever turns the flag off, as checkCookie does.
updateFromCookie_deactivateOnly(o) ==
  LET derived == IsOne(getCookie(cookies, hookId[o]))
  IN  IF derived
        THEN UNCHANGED << isActive, timeouts, timeoutIdRef, intervalDue >>
        ELSE /\ isActive' = [isActive EXCEPT ![o] = FALSE]
             /\ timeouts' = [timeouts EXCEPT ![o] =
                               IF timeoutIdRef[o] # 0
                                 THEN clearTimeout(timeouts[o], timeoutIdRef[o])
                                 ELSE timeouts[o]]
             /\ timeoutIdRef' = [timeoutIdRef EXCEPT ![o] = 0]
             /\ intervalDue' = [intervalDue EXCEPT ![o] = -1]

\* updateFromCookie, the third member of the hook's result: the flag is
\* derived again from the cookie, as at the first render; a pending timeout is
\* cancelled when the flag is found inactive. The effect of the re-render
\* starts or stops the polling.
updateFromCookie(o) ==
  LET derived == IsOne(getCookie(cookies, hookId[o]))
  IN  /\ isActive' = [isActive EXCEPT ![o] = derived]
      /\ IF derived
           THEN /\ intervalDue' = [intervalDue EXCEPT ![o] =
                                     IF isActive[o] THEN intervalDue[o] ELSE now + PollTicks]
                /\ UNCHANGED << timeouts, timeoutIdRef >>
           ELSE /\ timeouts' = [timeouts EXCEPT ![o] =
                                  IF timeoutIdRef[o] # 0
                                    THEN clearTimeout(timeouts[o], timeoutIdRef[o])
                                    ELSE timeouts[o]]
                /\ timeoutIdRef' = [timeoutIdRef EXCEPT ![o] = 0]
                /\ intervalDue' = [intervalDue EXCEPT ![o] = -1]

\* The caller calls updateFromCookie; the event records whether the flag was
\* active (1) or not (0) before the call.
UpdateFromCookie(o) ==
  /\ hookMounted[o]
  /\ updateFromCookie(o)
  /\ flagEvent' = FlagEv("update", o, IF isActive[o] THEN 1 ELSE 0)
  /\ UNCHANGED << now, cookies, hookMounted, hookId, setCount, requested >>
  /\ UNCHANGED nonFlagVars

\* --------------------------------------------------------- shell: values

\* The delays of the shell's three setTimeout calls, in milliseconds.
INITIAL_DELAY_MS == 100
SWITCH_DELAY_MS == 100
RESET_DELAY_MS == 200

\* props.position: undefined, "left" or "right".
Absent == "undefined"
PositionInputs == {Absent, "left", "right"}

\* `props.position ?? "right"`
NullishRight(p) == IF p = Absent THEN "right" ELSE p

\* A pending setTimeout: what it runs, the milliseconds left and, for the
\* side switch, the side its closure captured.
Timer(kind, left, target) == [kind |-> kind, left |-> left, target |-> target]

\* The `timers` array holds the initial and the switch timer; the reset timer
\* is not pushed to it. An "orphan" is the reset timer of an instance that
\* has unmounted: still pending, in no instance's `timers` array.
IsUntracked(t) == t.kind \in {"reset", "orphan"}

\* The timers that outlive the cleanup at unmount.
Orphans(ts) ==
  LET kept == SelectSeq(ts, IsUntracked)
  IN [i \in DOMAIN kept |-> Timer("orphan", kept[i].left, Absent)]

\* A variant that shows the shell during its initial animation.
isHide_ignoresInitialize == overrideHide \/ propsIsHide

\* A variant that is not forced hidden by overrideHide.
isHide_ignoresOverride == propsIsHide \/ initializeHide

\* The memoised isHide of the current render.
isHide ==
  IF overrideHide THEN TRUE
  ELSE IF propsIsHide THEN TRUE
  ELSE IF initializeHide THEN TRUE
  ELSE FALSE

\* The side class of the wrapper: position === "right" ? right : left.
Side == IF position = "right" THEN "right" ELSE "left"

\* The timers one run of the effect arms, in the order of its setTimeout calls.
effectTimers(ih, pos, pp) ==
  (IF ih THEN << Timer("initial", INITIAL_DELAY_MS, Absent) >> ELSE << >>)
    \o (IF pp # pos
          THEN << Timer("switch", SWITCH_DELAY_MS, NullishRight(pp)),
                  Timer("reset", RESET_DELAY_MS, Absent) >>
          ELSE << >>)

\* After a render with initializeHide ih, position pos and props.position pp:
\* when a dependency changed, the cleanup clears the timers of the `timers`
\* array and the effect runs again. ov and rest are overrideHide and the
\* pending timers as the handler left them.
useEffect(ih, pos, pp, ov, rest) ==
  IF << ih, pos, pp >> # << initializeHide, position, propsPosition >>
    THEN /\ shellTimers' = SelectSeq(rest, IsUntracked) \o effectTimers(ih, pos, pp)
         /\ overrideHide' = (ov \/ pp # pos)
    ELSE /\ shellTimers' = rest
         /\ overrideHide' = ov

\* The pending timer that runs next: the one due longest, the one armed first
\* among equals.
IsNextTimer(i) ==
  /\ shellTimers[i].left <= 0
  /\ \A j \in DOMAIN shellTimers :
       \/ shellTimers[i].left < shellTimers[j].left
       \/ shellTimers[i].left = shellTimers[j].left /\ i <= j

WithoutTimer(i) ==
  SubSeq(shellTimers, 1, i - 1) \o SubSeq(shellTimers, i + 1, Len(shellTimers))

ShellEv(type) == [type |-> type]

\* ------------------------------------------------------ shell: operations

ShellInit ==
  /\ shellMounted = FALSE
  /\ propsPosition = Absent
  /\ propsIsHide = FALSE
  /\ hasOnClick = FALSE
  /\ initializeHide = TRUE
  /\ overrideHide = FALSE
  /\ hideAnimation = TRUE
  /\ position = Absent
  /\ shellTimers = << >>
  /\ clicked = FALSE
  /\ shellEvent = ShellEv("init")

\* <MiniFAB> mounts: the state's initial values, then the effect.
MiniFABMount(pp, hide, oc) ==
  /\ ~shellMounted
  /\ shellMounted' = TRUE
  /\ propsPosition' = pp
  /\ propsIsHide' = hide
  /\ hasOnClick' = oc
  /\ initializeHide' = TRUE
  /\ overrideHide' = FALSE
  /\ hideAnimation' = TRUE
  /\ position' = pp
  /\ shellTimers' = shellTimers \o effectTimers(TRUE, pp, pp)
  /\ clicked' = FALSE
  /\ shellEvent' = ShellEv("mount")

\* A <MiniFAB> mounts, its <Draggable> child left aside.
ShellMount(pp, hide, oc) ==
  /\ MiniFABMount(pp, hide, oc)
  /\ UNCHANGED nonShellVars

\* <MiniFAB> unmounts: the cleanup clears the timers of the `timers` array; a
\* reset timer stays pending.
MiniFABUnmount ==
  /\ shellMounted
  /\ shellMounted' = FALSE
  /\ propsPosition' = Absent
  /\ propsIsHide' = FALSE
  /\ hasOnClick' = FALSE
  /\ initializeHide' = TRUE
  /\ overrideHide' = FALSE
  /\ hideAnimation' = TRUE
  /\ position' = Absent
  /\ shellTimers' = Orphans(shellTimers)
  /\ clicked' = FALSE
  /\ shellEvent' = ShellEv("unmount")

\* A <MiniFAB> unmounts, its <Draggable> child left aside.
ShellUnmount ==
  /\ MiniFABUnmount
  /\ UNCHANGED nonShellVars

\* The parent renders the shell with another props.position.
SetPosition(pp) ==
  /\ shellMounted
  /\ pp # propsPosition
  /\ Len(shellTimers) < MaxPending
  /\ propsPosition' = pp
  /\ useEffect(initializeHide, position, pp, overrideHide, shellTimers)
  /\ clicked' = FALSE
  /\ shellEvent' = ShellEv("position")
  /\ UNCHANGED << shellMounted, propsIsHide, hasOnClick, initializeHide,
                  hideAnimation, position >>
  /\ UNCHANGED nonShellVars

\* The parent renders the shell with another props.isHide.
SetIsHide(hide) ==
  /\ shellMounted
  /\ hide # propsIsHide
  /\ propsIsHide' = hide
  /\ clicked' = FALSE
  /\ shellEvent' = ShellEv("isHide")
  /\ UNCHANGED << shellMounted, propsPosition, hasOnClick, initializeHide,
                  overrideHide, hideAnimation, position, shellTimers >>
  /\ UNCHANGED nonShellVars

\* The timer of the initial animation runs.
InitialTimerFire ==
  /\ \E i \in DOMAIN shellTimers :
       /\ IsNextTimer(i)
       /\ shellTimers[i].kind = "initial"
       /\ initializeHide' = FALSE
       /\ useEffect(FALSE, position, propsPosition, overrideHide, WithoutTimer(i))
  /\ clicked' = FALSE
  /\ shellEvent' = ShellEv("initialTimer")
  /\ UNCHANGED << shellMounted, propsPosition, propsIsHide, hasOnClick,
                  hideAnimation, position >>
  /\ UNCHANGED nonShellVars

\* The first timer of the switch animation runs.
SwitchTimerFire ==
  /\ \E i \in DOMAIN shellTimers :
       /\ IsNextTimer(i)
       /\ shellTimers[i].kind = "switch"
       /\ hideAnimation' = FALSE
       /\ position' = shellTimers[i].target
       /\ useEffect(initializeHide, shellTimers[i].target, propsPosition,
                    overrideHide, WithoutTimer(i))
  /\ clicked' = FALSE
  /\ shellEvent' = ShellEv("switchTimer")
  /\ UNCHANGED << shellMounted, propsPosition, propsIsHide, hasOnClick,
                  initializeHide >>
  /\ UNCHANGED nonShellVars

\* A variant whose reset timer leaves overrideHide as it is.
ResetTimerFire_keepsOverride ==
  /\ \E i \in DOMAIN shellTimers :
       /\ IsNextTimer(i)
       /\ shellTimers[i].kind = "reset"
       /\ shellTimers' = WithoutTimer(i)
  /\ hideAnimation' = TRUE
  /\ clicked' = FALSE
  /\ shellEvent' = ShellEv("resetTimer")
  /\ UNCHANGED << shellMounted, propsPosition, propsIsHide, hasOnClick,
                  initializeHide, overrideHide, position >>
  /\ UNCHANGED nonShellVars

\* The timer that resets the override after the animation runs.
ResetTimerFire ==
  /\ \E i \in DOMAIN shellTimers :
       /\ IsNextTimer(i)
       /\ shellTimers[i].kind = "reset"
       /\ shellTimers' = WithoutTimer(i)
  /\ hideAnimation' = TRUE
  /\ overrideHide' = FALSE
  /\ clicked' = FALSE
  /\ shellEvent' = ShellEv("resetTimer")
  /\ UNCHANGED << shellMounted, propsPosition, propsIsHide, hasOnClick,
                  initializeHide, position >>
  /\ UNCHANGED nonShellVars

\* The reset timer of an unmounted instance runs: its setHideAnimation and
\* setOverrideHide address a component that is gone, and the state of an
\* instance mounted since is not theirs to change.
OrphanTimerFire ==
  /\ \E i \in DOMAIN shellTimers :
       /\ IsNextTimer(i)
       /\ shellTimers[i].kind = "orphan"
       /\ shellTimers' = WithoutTimer(i)
  /\ clicked' = FALSE
  /\ shellEvent' = ShellEv("orphanTimer")
  /\ UNCHANGED << shellMounted, propsPosition, propsIsHide, hasOnClick,
                  initializeHide, overrideHide, hideAnimation, position >>
  /\ UNCHANGED nonShellVars

\* The button's onClick.
onClick ==
  IF isHide THEN clicked' = FALSE ELSE clicked' = hasOnClick

\* The button is clicked.
Click ==
  /\ shellMounted
  /\ onClick
  /\ shellEvent' = ShellEv("click")
  /\ UNCHANGED << shellMounted, propsPosition, propsIsHide, hasOnClick,
                  initializeHide, overrideHide, hideAnimation, position,
                  shellTimers >>
  /\ UNCHANGED nonShellVars

\* Time passes for the shell's timers: ShellStepMs milliseconds, when no timer
\* is due.
ShellTick ==
  /\ shellTimers # << >>
  /\ \A i \in DOMAIN shellTimers : shellTimers[i].left > 0
  /\ shellTimers' = [i \in DOMAIN shellTimers |->
                       [shellTimers[i] EXCEPT !.left = @ - ShellStepMs]]
  /\ clicked' = FALSE
  /\ shellEvent' = ShellEv("tick")
  /\ UNCHANGED << shellMounted, propsPosition, propsIsHide, hasOnClick,
                  initializeHide, overrideHide, hideAnimation, position >>
  /\ UNCHANGED nonShellVars

\* ---------------------------------------------------------- specifications

\* The variables of a controller that a specification does not exercise.
DragRest ==
  /\ DragInit
  /\ offsetHeight = 2
  /\ cssTop = CssAuto
  /\ localStorage[StorageKey(Id("a"))] = NoItem
FlagRest == FlagInit /\ cookies = [n \in FlagIds |-> NoCookie]

ShellRest == ShellInit

\* The drag controller: one Draggable, its element and the localStorage.
DragNext ==
  \/ \E d \in DraggableIds, cb \in BOOLEAN, fresh \in BOOLEAN : Mount(d, cb, fresh)
  \/ \E d \in DraggableIds : SetDraggableId(d)
  \/ \E cb \in BOOLEAN : SetCallback(cb)
  \/ Unmount
  \/ \E p \in Pointers : MouseDown(p.x, p.y)
  \/ \E p \in Pointers : MouseMove(p.x, p.y)
  \/ \E p \in Pointers : MouseUp(p.x, p.y)

DragSpecInit == DragInit /\ FlagRest /\ ShellRest

DragSpec == DragSpecInit /\ [][DragNext]_vars

\* One flag observer, the cookie jar and the clock.
SoloObservers == {"o1"}

FlagNext ==
  \/ \E o \in SoloObservers, id \in FlagIds : FlagMount(o, id)
  \/ \E o \in SoloObservers : FlagUnmount(o)
  \/ \E o \in SoloObservers, e \in ExpireTimes : SetFlag(o, e)
  \/ \E o \in SoloObservers : TimeoutFire(o)
  \/ \E o \in SoloObservers : PollFire(o)
  \/ Tick

FlagSpecInit == FlagInit /\ DragRest /\ ShellRest

FlagSpec == FlagSpecInit /\ [][FlagNext]_vars

\* One flag observer, the cookie jar, the clock and another actor on the jar.
\* The observer sets expiries in the past, in the second second and two
\* seconds after the page's load.
ResyncExpireTimes == {0, TicksPerSecond + 1, 2 * TicksPerSecond}

ResyncNext ==
  \/ \E o \in SoloObservers, id \in FlagIds : FlagMount(o, id)
  \/ \E o \in SoloObservers : FlagUnmount(o)
  \/ \E o \in SoloObservers, e \in ResyncExpireTimes : SetFlag(o, e)
  \/ \E o \in SoloObservers : TimeoutFire(o)
  \/ \E o \in SoloObservers : PollFire(o)
  \/ \E o \in SoloObservers : UpdateFromCookie(o)
  \/ \E id \in FlagIds, v \in ExternalValues : ExternalWrite(id, v)
  \/ \E id \in FlagIds : ExternalDelete(id)
  \/ Tick

ResyncSpec == FlagSpecInit /\ [][ResyncNext]_vars

\* Two flag observers with distinct ids, the cookie jar and the clock. The
\* observers set expiries in the past, in the second second and at the end of
\* the clock.
ObserverIds == [o1 |-> "f", o2 |-> "g"]
PairExpireTimes == {0, TicksPerSecond + 1, MaxTime}

PairNext ==
  \/ \E o \in Observers : FlagMount(o, ObserverIds[o])
  \/ \E o \in Observers : FlagUnmount(o)
  \/ \E o \in Observers, e \in PairExpireTimes : SetFlag(o, e)
  \/ \E o \in Observers : TimeoutFire(o)
  \/ \E o \in Observers : PollFire(o)
  \/ Tick

PairSpec == FlagSpecInit /\ [][PairNext]_vars

\* One flag observer whose caller never calls setFlag, the cookie jar, another
\* actor on the jar and the clock; time passes and the interval's callback
\* runs when due.
WatchNext ==
  \/ \E o \in SoloObservers, id \in FlagIds : FlagMount(o, id)
  \/ \E o \in SoloObservers : FlagUnmount(o)
  \/ \E o \in SoloObservers : PollFire(o)
  \/ \E id \in FlagIds, v \in ExternalValues : ExternalWrite(id, v)
  \/ \E id \in FlagIds : ExternalDelete(id)
  \/ Tick

WatchSpec ==
  /\ FlagSpecInit
  /\ [][WatchNext]_vars
  /\ WF_vars(Tick)
  /\ \A o \in SoloObservers : WF_vars(PollFire(o))

\* Two flag observers of one id in one page, the cookie jar and the clock; the
\* observers set expiries one and two seconds after the page's load. Time
\* passes and the callbacks of setTimeout and setInterval run when due.
SharedId == "f"
SharedExpireTimes == {TicksPerSecond, 2 * TicksPerSecond}

SharedNext ==
  \/ \E o \in Observers : FlagMount(o, SharedId)
  \/ \E o \in Observers : FlagUnmount(o)
  \/ \E o \in Observers, e \in SharedExpireTimes : SetFlag(o, e)
  \/ \E o \in Observers : TimeoutFire(o)
  \/ \E o \in Observers : PollFire(o)
  \/ Tick

SharedSpec ==
  /\ FlagSpecInit
  /\ [][SharedNext]_vars
  /\ WF_vars(Tick)
  /\ \A o \in Observers : WF_vars(TimeoutFire(o)) /\ WF_vars(PollFire(o))

\* One flag observer whose id argument changes, the cookie jar and the clock.
\* Before the page loads each id has no cookie, a flag cookie that lasts two
\* seconds or one that outlasts the clock; the observer sets expiries one and
\* two seconds after the load. Time passes and the callbacks of setTimeout
\* and setInterval run when due.
RekeyCookies ==
  {NoCookie, Cookie("1", 2 * TicksPerSecond), Cookie("1", MaxTime + TicksPerSecond)}
RekeyExpireTimes == {TicksPerSecond, 2 * TicksPerSecond}

RekeyInit ==
  /\ now = 0
  /\ cookies \in [FlagIds -> RekeyCookies]
  /\ hookMounted = [o \in Observers |-> FALSE]
  /\ hookId = [o \in Observers |-> ""]
  /\ isActive = [o \in Observers |-> FALSE]
  /\ timeoutIdRef = [o \in Observers |-> 0]
  /\ timeouts = [o \in Observers |-> {}]
  /\ intervalDue = [o \in Observers |-> -1]
  /\ setCount = [o \in Observers |-> 0]
  /\ requested = [o \in Observers |-> NoRequest]
  /\ flagEvent = FlagEv("init", "", 0)

RekeyNext ==
  \/ \E o \in SoloObservers, id \in FlagIds : FlagMount(o, id)
  \/ \E o \in SoloObservers : FlagUnmount(o)
  \/ \E o \in SoloObservers, id \in FlagIds : ChangeId(o, id)
  \/ \E o \in SoloObservers, e \in RekeyExpireTimes : SetFlag(o, e)
  \/ \E o \in SoloObservers : TimeoutFire(o)
  \/ \E o \in SoloObservers : PollFire(o)
  \/ Tick

RekeySpecInit == RekeyInit /\ DragRest /\ ShellRest

RekeySpec ==
  /\ RekeySpecInit
  /\ [][RekeyNext]_vars
  /\ WF_vars(Tick)
  /\ \A o \in SoloObservers : WF_vars(TimeoutFire(o)) /\ WF_vars(PollFire(o))

\* The shell: one <MiniFAB>, its parent's props, its timers and its button.
ShellNext ==
  \/ \E pp \in PositionInputs, hide \in BOOLEAN, oc \in BOOLEAN : ShellMount(pp, hide, oc)
  \/ ShellUnmount
  \/ \E pp \in PositionInputs : SetPosition(pp)
  \/ \E hide \in BOOLEAN : SetIsHide(hide)
  \/ InitialTimerFire
  \/ SwitchTimerFire
  \/ ResetTimerFire
  \/ OrphanTimerFire
  \/ Click
  \/ ShellTick

ShellSpecInit == ShellInit /\ DragRest /\ FlagRest

ShellSpec == ShellSpecInit /\ [][ShellNext]_vars

\* The shell with the browser's timers: time passes while a timer is pending
\* and a timer that is due runs.
ShellLiveSpec ==
  /\ ShellSpecInit
  /\ [][ShellNext]_vars
  /\ WF_vars(ShellTick)
  /\ WF_vars(InitialTimerFire)
  /\ WF_vars(SwitchTimerFire)
  /\ WF_vars(ResetTimerFire)
  /\ WF_vars(OrphanTimerFire)

\* The shell with its <Draggable> child: the wrapper element is the drag
\* target, the child gets props.draggableId and no onDragStateChange.
FabPointers == { [x |-> 0, y |-> 0], [x |-> 3, y |-> 4], [x |-> MaxCoord, y |-> 0] }
FabDraggableIds == {NoId, Id("a")}

\* <MiniFAB> mounts with its <Draggable> child on a new wrapper element.
FabMount(pp, hide, oc, d) ==
  /\ MiniFABMount(pp, hide, oc)
  /\ DraggableMount(d, FALSE, TRUE)
  /\ UNCHANGED flagVars

\* <MiniFAB> unmounts with its <Draggable> child.
FabUnmount ==
  /\ MiniFABUnmount
  /\ DraggableUnmount
  /\ UNCHANGED flagVars

\* What a pointer event on the wrapper leaves of the shell: no state of
\* <MiniFAB> changes and props.onClick is not called.
PointerOnShell(type) ==
  /\ shellMounted
  /\ clicked' = FALSE
  /\ shellEvent' = ShellEv(type)
  /\ UNCHANGED << shellMounted, propsPosition, propsIsHide, hasOnClick,
                  initializeHide, overrideHide, hideAnimation, position,
                  shellTimers >>
  /\ UNCHANGED << innerHeight, offsetHeight, cssTop, mounted, draggableId, hasCallback >>
  /\ UNCHANGED flagVars

\* mousedown on the shell's button bubbles to the wrapper.
FabMouseDown(x, y) ==
  /\ event' = Ev("mousedown", x, y)
  /\ handleMouseDown(x, y)
  /\ PointerOnShell("mousedown")

\* mousemove reaches the document.
FabMouseMove(x, y) ==
  /\ event' = Ev("mousemove", x, y)
  /\ handleMouseMove(x, y)
  /\ PointerOnShell("mousemove")

\* mouseup reaches the document; the shell's event tells a mouseup that ended
\* a gesture begun on the wrapper ("gesture") from one outside a gesture.
FabMouseUp(x, y) ==
  /\ event' = Ev("mouseup", x, y)
  /\ handleMouseUp(x, y)
  /\ PointerOnShell(IF isDraggingRef THEN "gesture" ELSE "mouseup")

FabNext ==
  \/ \E pp \in PositionInputs, hide \in BOOLEAN, oc \in BOOLEAN, d \in FabDraggableIds :
       FabMount(pp, hide, oc, d)
  \/ FabUnmount
  \/ \E hide \in BOOLEAN : SetIsHide(hide)
  \/ InitialTimerFire
  \/ ShellTick
  \/ \E p \in FabPointers : FabMouseDown(p.x, p.y)
  \/ \E p \in FabPointers : FabMouseMove(p.x, p.y)
  \/ \E p \in FabPointers : FabMouseUp(p.x, p.y)
  \/ Click

FabSpecInit == ShellInit /\ DragRest /\ FlagRest

FabSpec == FabSpecInit /\ [][FabNext]_vars

\* ------------------------------------------------------------ properties

\* min(max(0, y), viewportHeight - elementHeight), case by case.
SpecClamp(y) ==
  LET hi == innerHeight - offsetHeight
      floored == IF y < 0 THEN 0 ELSE y
  IN  IF floored > hi THEN hi ELSE floored

MaxTop == innerHeight - offsetHeight
Fits == offsetHeight <= innerHeight
ClampInputs == (0 - 2 * MaxCoord)..(3 * MaxCoord)

\* The top a pointer-move at the last event's place asks for.
AskedTop == initialTopRef + (event.y - dragStartYRef)

\* The squared distance between the pointer-down and the last event.
Travel2 ==
  (event.x - mouseDownPositionRef.x) * (event.x - mouseDownPositionRef.x)
    + (event.y - mouseDownPositionRef.y) * (event.y - mouseDownPositionRef.y)

\* The step binds a controller: a mount, or a change of draggableId.
BindStep ==
  \/ event'.type = "mount"
  \/ event'.type = "props" /\ draggableId' # draggableId

\* C1: when the element fits the viewport, clampYPosition(y) lies in
\* [0, viewportHeight - elementHeight], is 0 below the range, the upper end
\* above it, and y itself inside it.
C1_ClampInRange ==
  Fits =>
    \A y \in ClampInputs :
      LET out == clampYPosition(y)
      IN  /\ 0 <= out /\ out <= MaxTop
          /\ (y < 0 => out = 0)
          /\ (y > MaxTop => out = MaxTop)
          /\ (0 <= y /\ y <= MaxTop => out = y)

\* C1 witness: a pointer-move asked for a top beyond the lower end of the
\* viewport and the element was put at the upper end of the range.
C1_Witness ==
  /\ Fits /\ mounted /\ isDraggingRef
  /\ event.type = "mousemove"
  /\ AskedTop > MaxTop
  /\ styleTop = CssPx(MaxTop)

\* C2: every top the controller has written to the element of a viewport it
\* fits lies in [0, viewportHeight - elementHeight].
C2_OffsetInRange ==
  (Fits /\ styleTop.kw = "px") => (0 <= styleTop.n /\ styleTop.n <= MaxTop)

\* C2 witness: a pointer-move asked for a top above the viewport and the
\* element was put at 0.
C2_Witness ==
  /\ Fits /\ mounted /\ isDraggingRef
  /\ event.type = "mousemove"
  /\ AskedTop < 0
  /\ styleTop = CssPx(0)

\* C3: the wasDragged a pointer-up reports is true iff the squared distance
\* from the pointer-down exceeds 25.
C3_DragThreshold ==
  (event.type = "mouseup" /\ notified.called) =>
    (notified.wasDragged <=> Travel2 > 25)

\* C3 witness: a gesture of travel exactly 5 was reported as not dragged.
C3_Witness ==
  /\ event.type = "mouseup" /\ notified.called
  /\ Travel2 = 25
  /\ ~notified.wasDragged

\* C4: a pointer-up that follows a pointer-move of the gesture persists
\* {y: clamp(t + d)} under the controller's key, and a mount that finds a
\* clamped offset under its key puts the element exactly there and leaves the
\* record as it is.
C4_RoundTrip ==
  [][ /\ ( /\ event.type = "mousemove" /\ event'.type = "mouseup"
           /\ mounted /\ isDraggingRef /\ ~Falsy(draggableId) )
        => localStorage'[<<"draggable-position-", draggableId.s>>]
             = JsonY(SpecClamp(AskedTop))
      /\ ( /\ event'.type = "mount" /\ ~Falsy(draggableId')
           /\ LET item == localStorage[<<"draggable-position-", draggableId'.s>>]
              IN  item.kind = "json" /\ item.ytype = "number"
                    /\ SpecClamp(item.y) = item.y )
        => /\ styleTop' =
                CssPx(localStorage[<<"draggable-position-", draggableId'.s>>].y)
           /\ localStorage' = localStorage
    ]_vars

\* C4 witness: a mount restored the offset 2, which only a gesture persists.
C4_Witness ==
  /\ event.type = "mount" /\ draggableId = Id("a")
  /\ localStorage[<<"draggable-position-", "a">>] = JsonY(2)
  /\ styleTop = CssPx(2)

\* C5: a step changes the record of an id only if that id is the
\* controller's draggableId.
C5_PerIdIndependence ==
  [][ \A s \in IdStrings :
        localStorage'[<<"draggable-position-", s>>]
            # localStorage[<<"draggable-position-", s>>]
          => draggableId' = Id(s)
    ]_vars

\* C5 witness: gestures under both ids have persisted different offsets.
C5_Witness ==
  /\ event.type = "mouseup" /\ storageOps = {"setItem"}
  /\ draggableId = Id("b")
  /\ localStorage[<<"draggable-position-", "a">>] = JsonY(2)
  /\ localStorage[<<"draggable-position-", "b">>] = JsonY(3)

\* C6: a step of a controller without a draggableId calls no localStorage
\* method and leaves the store unchanged.
C6_NoIdNoPersistence ==
  [][ Falsy(draggableId') => (storageOps' = {} /\ localStorage' = localStorage) ]_vars

\* C6 witness: a controller without a draggableId finished a real drag.
C6_Witness ==
  /\ event.type = "mouseup" /\ mounted /\ draggableId = NoId
  /\ notified.called /\ notified.wasDragged
  /\ styleTop.kw = "px"
  /\ storageOps = {}

\* C7: binding to a record that is not JSON or has no numeric y leaves the
\* controller bound, the element's top as it was and the record unwritten.
C7_MalformedAsAbsent ==
  [][ ( /\ BindStep /\ ~Falsy(draggableId')
        /\ localStorage[<<"draggable-position-", draggableId'.s>>]
             \in {NotJson, JsonStringY, JsonNoY} )
      => /\ mounted'
         /\ localStorage' = localStorage
         /\ "setItem" \notin storageOps'
         /\ \/ styleTop' = styleTop
            \/ event'.type = "mount" /\ styleTop' = CssUnset
    ]_vars

\* C7 witness: a controller is bound over a record that is not JSON.
C7_Witness ==
  /\ event.type = "mount" /\ mounted /\ draggableId = Id("a")
  /\ localStorage[<<"draggable-position-", "a">>] = NotJson
  /\ styleTop = CssUnset

\* C8: after setFlag with an expiry in the future, and no call since, the
\* flag reads active until that expiry and inactive once it has passed and
\* the timers due have run.
C8_ActiveUntilExpiry ==
  \A o \in SoloObservers :
    (hookMounted[o] /\ requested[o].valid) =>
      /\ now < requested[o].expireAt => isActive[o]
      /\ (now >= requested[o].expireAt /\ ~TimerDue) => ~isActive[o]

\* C9: when setFlag(e2) replaced a pending setFlag(e1) with e1 < e2, the flag
\* reads active until e2 and no timer of the observer is due at another time
\* than e2.
C9_ResetNeverFlickers ==
  \A o \in SoloObservers :
    ( /\ hookMounted[o] /\ requested[o].valid
      /\ requested[o].replaced # -1
      /\ requested[o].replaced < requested[o].expireAt
      /\ now < requested[o].expireAt )
    => /\ isActive[o]
       /\ \A t \in timeouts[o] : t.due = requested[o].expireAt

\* C10: setFlag with an expiry that is not in the future, on an inactive
\* flag, leaves the flag inactive in the state it produces.
C10_PastExpiryNoOp ==
  [][ \A o \in SoloObservers :
        ( /\ flagEvent'.type = "setFlag" /\ flagEvent'.o = o
          /\ flagEvent'.arg <= now
          /\ ~isActive[o] )
        => ~isActive'[o]
    ]_vars

\* C11: setFlag with an expiry that is not in the future, on an active flag
\* with a cookie and a pending timeout, leaves the cookie jar, the observer's
\* pending timeouts and its active state as they were.
C11_PastExpiryKeepsActive ==
  [][ \A o \in SoloObservers :
        ( /\ flagEvent'.type = "setFlag" /\ flagEvent'.o = o
          /\ flagEvent'.arg <= now
          /\ isActive[o]
          /\ IsOne(getCookie(cookies, hookId[o]))
          /\ timeouts[o] # {} )
        => /\ cookies' = cookies
           /\ timeouts'[o] = timeouts[o]
           /\ isActive'[o]
    ]_vars

\* The record of an id holds an expiry: a value that parses as a number
\* greater than the current time.
HoldsFutureExpiry(jar, id) ==
  LET v == getCookie(jar, id)
  IN  /\ v.found
      /\ ~ParseInt(v.value).nan
      /\ ParseInt(v.value).n > GetTime(now)

\* C12: an observer's flag is active iff the record of its id exists, parses
\* as a number and that number is greater than the current time.
C12_ActiveIffValidRecord ==
  \A o \in SoloObservers :
    hookMounted[o] => (isActive[o] <=> HoldsFutureExpiry(cookies, hookId[o]))

\* C13: while an observer's flag is active a poll is scheduled within the
\* polling period, and a resync (a poll or updateFromCookie) that finds the
\* record deleted turns the flag off and leaves no timeout pending.
C13_ExternalClearDetected ==
  [][ \A o \in SoloObservers :
        /\ (hookMounted[o] /\ isActive[o])
             => (intervalDue[o] # -1 /\ intervalDue[o] <= now + PollTicks)
        /\ ( /\ flagEvent'.type \in {"poll", "update"} /\ flagEvent'.o = o
             /\ cookies[hookId[o]] = NoCookie )
           => (~isActive'[o] /\ timeouts'[o] = {})
    ]_vars

\* C13 witness: a flag set until two seconds after the page's load lost its
\* record to another actor, and a poll turned it off before that instant.
C13_Witness ==
  \E o \in SoloObservers :
    /\ hookMounted[o] /\ flagEvent = FlagEv("poll", o, 1)
    /\ requested[o].valid /\ requested[o].expireAt = 2 * TicksPerSecond
    /\ now < requested[o].expireAt
    /\ cookies[hookId[o]] = NoCookie
    /\ ~isActive[o] /\ timeouts[o] = {}

C15_DistinctIdsIndependent ==
  [][ \A o \in Observers :
        (flagEvent'.type \in {"setFlag", "timeout", "poll"} /\ flagEvent'.o = o)
        => /\ \A p \in Observers \ {o} :
                (hookMounted[p] /\ hookId[p] # hookId[o])
                => /\ isActive'[p] = isActive[p]
                   /\ timeouts'[p] = timeouts[p]
                   /\ timeoutIdRef'[p] = timeoutIdRef[p]
           /\ \A id \in FlagIds \ {hookId[o]} : cookies'[id] = cookies[id]
    ]_vars

\* C15 witness: both observers are active over their own records and
\* timeouts, and one of them has just called setFlag.
C15_Witness ==
  /\ flagEvent.type = "setFlag" /\ flagEvent.o = "o1"
  /\ \A o \in Observers : hookMounted[o] /\ isActive[o] /\ timeouts[o] # {}
  /\ hookId["o1"] # hookId["o2"]
  /\ \A id \in FlagIds : cookies[id].present /\ now < cookies[id].expires
  /\ cookies["f"].expires # cookies["g"].expires

\* C16: at the first render the flag is active iff the record of the id
\* exists and its value parses as a timestamp greater than the current time.
C16_InitialRead ==
  [][ \A o \in SoloObservers :
        (flagEvent'.type = "mount" /\ flagEvent'.o = o)
        => (isActive'[o] <=> HoldsFutureExpiry(cookies, hookId'[o]))
    ]_vars

\* C17: after setFlag with an expiry in the future the value under the id
\* parses as that expiry, a timestamp greater than the current time.
C17_PersistsExpiryInstant ==
  [][ \A o \in SoloObservers :
        ( /\ flagEvent'.type = "setFlag" /\ flagEvent'.o = o
          /\ flagEvent'.arg > now )
        => LET v == getCookie(cookies', hookId[o])
           IN  /\ v.found
               /\ ~ParseInt(v.value).nan
               /\ ParseInt(v.value).n = GetTime(flagEvent'.arg)
               /\ ParseInt(v.value).n > GetTime(now)
    ]_vars

\* C20: onDragStateChange is called only by a pointer-up that ends a gesture
\* in progress, such a pointer-up calls it when it is supplied, with true iff
\* the squared distance from the pointer-down exceeds 25, and it ends the
\* gesture, so that no second call follows without a new pointer-down.
C20_OneCallPerGesture ==
  [][ LET ends == event'.type = "mouseup" /\ mounted /\ isDraggingRef
          dx == event'.x - mouseDownPositionRef.x
          dy == event'.y - mouseDownPositionRef.y
      IN  /\ notified'.called => (ends /\ hasCallback)
          /\ (ends /\ hasCallback)
               => /\ notified'.called
                  /\ notified'.wasDragged <=> (dx * dx + dy * dy > 25)
          /\ ends => ~isDraggingRef'
    ]_vars

\* C20 witness: the pointer-up of a drag has called onDragStateChange(true)
\* and the controller is idle again.
C20_Witness ==
  /\ event.type = "mouseup" /\ mounted /\ hasCallback
  /\ notified = Call(TRUE)
  /\ ~isDraggingRef /\ ~dataDragging
  /\ Travel2 > 25

\* A side switch is in progress: the shell is forced hidden or a switch or
\* reset timer is pending.
SwitchInProgress ==
  \/ overrideHide
  \/ \E i \in DOMAIN shellTimers : shellTimers[i].kind \in {"switch", "reset"}

\* C18: props.onClick is called only by a click on a shell that is not
\* hidden by props.isHide, not in its initial animation and not forced hidden
\* by a side switch.
C18_NoClickWhileHidden ==
  [][ clicked' =>
        /\ shellEvent'.type = "click"
        /\ shellMounted /\ hasOnClick
        /\ ~propsIsHide
        /\ ~initializeHide
        /\ ~overrideHide
    ]_vars

\* C18 witness: a click on a visible shell reached props.onClick after the
\* shell had switched to the right side.
C18_Witness ==
  /\ shellEvent.type = "click" /\ clicked
  /\ propsPosition = "right" /\ position = "right"
  /\ ~propsIsHide /\ ~initializeHide /\ ~overrideHide

\* C19: a mounted shell whose props.position is undefined, with no side
\* switch in progress, is displayed on the left.
C19_DefaultSideLeft ==
  (shellMounted /\ propsPosition = Absent /\ ~SwitchInProgress) => Side = "left"

\* C21: the click that follows a gesture on the shell's wrapper which ended
\* with a pointer travel above the threshold (wasDragged = true) does not
\* call props.onClick.
C21_ClickAfterDragSuppressed ==
  [][ ( /\ shellEvent.type = "gesture" /\ Travel2 > 25
        /\ shellEvent'.type = "click" )
      => ~clicked'
    ]_vars

\* The DOM events of the pointer.
PointerEvents == {"mousedown", "mousemove", "mouseup"}

\* C22: an unmount leaves no listener attached, and a pointer-down,
\* pointer-move or pointer-up on an unbound controller changes neither the
\* element's top nor the store and calls neither localStorage nor
\* onDragStateChange; after a rebind only the current binding acts: a call
\* needs the current callback and a write goes under the current id.
C22_UnbindDetaches ==
  [][ /\ event'.type = "unmount" => ~mounted'
      /\ (~mounted /\ event'.type \in PointerEvents)
           => /\ styleTop' = styleTop
              /\ localStorage' = localStorage
              /\ storageOps' = {}
              /\ ~notified'.called
      /\ (mounted /\ event'.type \in PointerEvents)
           => /\ notified'.called => hasCallback
              /\ \A k \in StorageKeys :
                   localStorage'[k] # localStorage[k] => k = StorageKey(draggableId)
    ]_vars

\* C22 witness: a controller with an id and a callback was unmounted in the
\* middle of a gesture that had moved the element, and a pointer-up beyond the
\* threshold followed: no record was written and no callback called.
C22_Witness ==
  /\ ~mounted /\ event.type = "mouseup"
  /\ dataDragging /\ styleTop = CssPx(3)
  /\ event.y = MaxCoord
  /\ localStorage[StorageKey(Id("a"))] = NoItem
  /\ ~notified.called /\ storageOps = {}

C24_NoStuckDrag ==
  [][ (mounted /\ isDraggingRef /\ event'.type = "mouseup")
      => (~isDraggingRef' /\ ~dataDragging')
    ]_vars

\* C24 witness: a gesture ended by a pointer-up below the viewport, away from
\* the element at the top, and its offset was persisted.
C24_Witness ==
  /\ mounted /\ event.type = "mouseup"
  /\ event.y > innerHeight
  /\ getCurrentTop(styleTop) = 0
  /\ storageOps = {"setItem"}
  /\ ~isDraggingRef /\ ~dataDragging

\* C25: a bind with a draggableId over a record with a numeric y = s puts the
\* element at clamp(s), writes the record again iff clamp(s) differs from s,
\* and leaves the record holding the offset it applied.
C25_SelfHealingRestore ==
  [][ ( /\ BindStep /\ ~Falsy(draggableId')
        /\ LET item == localStorage[<<"draggable-position-", draggableId'.s>>]
           IN  item.kind = "json" /\ item.ytype = "number" )
      => LET key == <<"draggable-position-", draggableId'.s>>
             s == localStorage[key].y
         IN  /\ styleTop' = CssPx(SpecClamp(s))
             /\ ("setItem" \in storageOps') <=> (SpecClamp(s) # s)
             /\ (SpecClamp(s) = s) => localStorage' = localStorage
             /\ localStorage'[key] = JsonY(styleTop'.n)
    ]_vars

\* C25 witness: a mount found an offset below the viewport, put the element
\* at the lower end of the range and saved that offset.
C25_Witness ==
  /\ event.type = "mount" /\ mounted /\ draggableId = Id("a") /\ Fits
  /\ styleTop = CssPx(MaxTop)
  /\ storageOps = {"getItem", "setItem"}
  /\ localStorage[<<"draggable-position-", "a">>] = JsonY(MaxTop)

\* C26: the offset a pointer-up persists for an element that fits the
\* viewport lies in [0, viewportHeight - elementHeight], also when no
\* pointer-move came between the pointer-down and the pointer-up.
C26_PersistsClampedOffset ==
  [][ (Fits /\ event'.type = "mouseup" /\ "setItem" \in storageOps')
      => LET saved == localStorage'[StorageKey(draggableId)]
         IN  0 <= saved.y /\ saved.y <= MaxTop
    ]_vars

\* C27: a pointer-move outside a gesture changes neither the element's top,
\* nor the gesture state, nor the dragging mark, nor the store; in a gesture
\* it puts the element at clamp(top at the pointer-down + (clientY - clientY
\* at the pointer-down)), whatever clientX is; the pointer-down records that
\* top and that clientY.
C27_MoveOnlyWhileDragging ==
  [][ /\ (mounted /\ event'.type = "mousemove" /\ ~isDraggingRef)
           => /\ styleTop' = styleTop
              /\ isDraggingRef' = isDraggingRef
              /\ dataDragging' = dataDragging
              /\ localStorage' = localStorage
      /\ (mounted /\ event'.type = "mousemove" /\ isDraggingRef)
           => /\ styleTop' = CssPx(SpecClamp(initialTopRef + (event'.y - dragStartYRef)))
              /\ isDraggingRef' /\ localStorage' = localStorage
      /\ (mounted /\ event'.type = "mousedown")
           => /\ initialTopRef' = getCurrentTop(styleTop)
              /\ dragStartYRef' = event'.y
    ]_vars

\* C27 witness: with the element at the lower end of the range, a
\* pointer-move outside a gesture to the place of the last pointer-down, which
\* in a gesture would have put the element at 0, left it where it was.
C27_Witness ==
  /\ mounted /\ event.type = "mousemove" /\ ~isDraggingRef
  /\ Fits /\ styleTop = CssPx(MaxTop) /\ MaxTop > 0
  /\ initialTopRef = 0 /\ event.y = dragStartYRef
  /\ ~dataDragging

\* C28: while a controller is bound, the element carries the dragging mark
\* iff a gesture is in progress.
C28_IndicatorIffDragging ==
  mounted => (dataDragging <=> isDraggingRef)

\* C29: an observer has at most one pending timeout, and a pending timeout
\* is the one timeoutIdRef names, armed by the observer's latest setFlag with
\* an expiry in the future and due at that expiry.
C29_OneLiveTimeout ==
  \A o \in SoloObservers :
    /\ Cardinality(timeouts[o]) <= 1
    /\ \A t \in timeouts[o] :
         /\ t.h = timeoutIdRef[o]
         /\ requested[o].valid
         /\ t.due = requested[o].expireAt

\* C29 witness: a setFlag replaced the pending timeout of an earlier one with
\* another expiry, and one timeout is pending.
C29_Witness ==
  \E o \in SoloObservers :
    /\ hookMounted[o] /\ flagEvent.type = "setFlag" /\ flagEvent.o = o
    /\ requested[o].valid /\ requested[o].replaced # -1
    /\ requested[o].replaced # requested[o].expireAt
    /\ setCount[o] = 2
    /\ timeouts[o] = {[h |-> 2, due |-> requested[o].expireAt]}

\* C30: a poll that does not find the flag's record under the observer's id
\* (no cookie, an expired one or another value) turns the flag off and
\* leaves no timeout pending and none named by timeoutIdRef; and a timeout
\* that runs is the one the observer's latest setFlag armed, never one an
\* earlier resync had found stale.
C30_ResyncCancelsStaleTimeout ==
  [][ \A o \in SoloObservers :
        /\ ( /\ flagEvent'.type = "poll" /\ flagEvent'.o = o
             /\ ~IsOne(getCookie(cookies, hookId[o])) )
           => /\ ~isActive'[o]
              /\ timeouts'[o] = {}
              /\ timeoutIdRef'[o] = 0
        /\ (flagEvent'.type = "timeout" /\ flagEvent'.o = o)
           => /\ requested[o].valid
              /\ flagEvent'.arg = requested[o].expireAt
    ]_vars

\* C30 witness: a poll found a text that is not the flag's record under the
\* id of an active observer whose timeout was pending, and turned the flag off
\* and cancelled the timeout before the expiry the observer had asked for.
C30_Witness ==
  \E o \in SoloObservers :
    /\ hookMounted[o] /\ flagEvent = FlagEv("poll", o, 1)
    /\ requested[o].valid /\ now < requested[o].expireAt
    /\ cookies[hookId[o]].present /\ cookies[hookId[o]].value = "invalid"
    /\ now < cookies[hookId[o]].expires
    /\ ~isActive[o] /\ timeouts[o] = {} /\ timeoutIdRef[o] = 0

\* C31: an observer has a polling interval only while it is mounted and its
\* flag is active, and every step that turns the flag off (the timeout or a
\* poll that finds the record gone) leaves it without an interval.
C31_PollingOnlyWhileActive ==
  [][ \A o \in SoloObservers :
        /\ intervalDue[o] # -1 => (hookMounted[o] /\ isActive[o])
        /\ (isActive[o] /\ ~isActive'[o]) => intervalDue'[o] = -1
    ]_vars

\* C31 witness: the timeout of an active, polling observer ran at the expiry
\* and the observer is left inactive without an interval.
C31_Witness ==
  \E o \in SoloObservers :
    /\ hookMounted[o] /\ flagEvent.type = "timeout" /\ flagEvent.o = o
    /\ requested[o].valid /\ flagEvent.arg = requested[o].expireAt
    /\ now = requested[o].expireAt
    /\ ~isActive[o] /\ intervalDue[o] = -1

\* The parent stops changing props.position from some step on.
PositionSettles == <>[][shellEvent'.type # "position"]_vars

C33_SwitchOnlyWhileHidden ==
  [][ (shellMounted /\ shellMounted')
      => /\ Side' # Side => overrideHide
         /\ (overrideHide /\ ~overrideHide')
              => \A i \in DOMAIN shellTimers : shellTimers[i].kind # "switch"
    ]_vars

\* No side switch is in progress and the shell is displayed on side s.
SettledOn(s) ==
  /\ Side = s
  /\ ~overrideHide
  /\ hideAnimation
  /\ \A i \in DOMAIN shellTimers : shellTimers[i].kind \notin {"switch", "reset"}

\* C34: when props.position stays at a defined side s from some point on
\* (the shell staying mounted), then, the timers running when due, the shell
\* reaches and keeps a state with no switch in progress: displayed on side s,
\* overrideHide false, hideAnimation true, no switch or reset timer pending.
C34_SwitchConverges ==
  \A s \in {"left", "right"} :
    <>[](shellMounted /\ propsPosition = s) => <>[]SettledOn(s)

\* The reset timer of a completed switch to the right has just run.
C34_Witness ==
  /\ shellMounted
  /\ shellEvent.type = "resetTimer"
  /\ propsPosition = "right"
  /\ shellTimers = << >>
  /\ SettledOn("right")

\* C35: hideAnimation is false only during a side switch, in a state where
\* overrideHide is true: whenever the shell is mounted with hideAnimation
\* false, overrideHide is true and a reset timer is pending.
C35_SuppressionOnlyDuringSwitch ==
  (shellMounted /\ ~hideAnimation)
    => /\ overrideHide
       /\ \E i \in DOMAIN shellTimers : shellTimers[i].kind = "reset"

\* C39: once the shell has unmounted no timer it scheduled is pending.
C39_NoTimerAfterUnmount ==
  ~shellMounted => shellTimers = << >>

\* C40: a mouseup heard while isDraggingRef is false leaves the saved
\* position, the element's top and data-dragging as they are, and writes
\* nothing to localStorage, with or without a draggableId.
C40_IdlePointerUpNoOp ==
  [][ (mounted /\ ~isDraggingRef /\ event'.type = "mouseup")
        => /\ localStorage' = localStorage
           /\ storageOps' = {}
           /\ styleTop' = styleTop
           /\ cssTop' = cssTop
           /\ dataDragging' = dataDragging
           /\ ~isDraggingRef'
    ]_vars

\* A mouseup outside a gesture on a component with a draggableId whose saved
\* position is not the element's current top: a save would have changed it.
C40_Witness ==
  /\ mounted
  /\ event.type = "mouseup"
  /\ ~Falsy(draggableId)
  /\ ~isDraggingRef
  /\ storageOps = {}
  /\ savePositionToStorage(localStorage, draggableId, getCurrentTop(styleTop))
       # localStorage

\* The persisted record of the observer's id says the flag is on.
RecordValid(o) == IsOne(getCookie(cookies, hookId[o]))

\* C37: an observer mounted over a valid record that never calls setFlag
\* starts active, and once the record has expired or been removed while it
\* is active it becomes inactive (unless it unmounts or the record is written
\* again first). Stated for polls that fall within the clock's range.
C37_ObserverFollowsExpiry ==
  /\ [][ \A o \in SoloObservers :
           flagEvent'.type = "mount" /\ flagEvent'.o = o
             => isActive'[o] = IsOne(getCookie(cookies', hookId'[o])) ]_vars
  /\ \A o \in SoloObservers :
       [](( /\ hookMounted[o] /\ isActive[o] /\ ~RecordValid(o)
            /\ intervalDue[o] <= MaxTime )
          => <>(~isActive[o] \/ ~hookMounted[o] \/ RecordValid(o)))

\* A poll has just turned off an observer that never called setFlag; the
\* cookie it was mounted over is still in the jar, expired.
C37_Witness ==
  \E o \in SoloObservers :
    /\ flagEvent = FlagEv("poll", o, 0)
    /\ hookMounted[o] /\ ~isActive[o]
    /\ setCount[o] = 0
    /\ cookies[hookId[o]] = Cookie("1", 2 * TicksPerSecond)
    /\ now >= 2 * TicksPerSecond

\* C36: of two observers of one id, each follows the persisted record: an
\* active observer does not turn inactive in a step that leaves the record
\* valid, and an observer that is inactive while the record is valid becomes
\* active (unless it unmounts or the record ends first).
C36_ObserversReconcile ==
  /\ [][ \A o \in Observers :
           ( /\ hookMounted[o] /\ isActive[o]
             /\ hookMounted'[o]
             /\ IsOne(getCookie(cookies', hookId'[o])) )
             => isActive'[o] ]_vars
  /\ \A o \in Observers :
       []((hookMounted[o] /\ ~isActive[o] /\ RecordValid(o))
            => <>(isActive[o] \/ ~hookMounted[o] \/ ~RecordValid(o)))

\* C38: when the id of a mounted observer changes, no timeout armed under the
\* old id stays pending, and the observer comes to read what the record of the
\* new id says, active if it is valid, inactive if not: right after the
\* change it reads so already or a callback that re-reads the cookie is
\* pending, and it reads so eventually (unless it unmounts, its id changes
\* again or it calls setFlag first). The last part is stated for changes at
\* least one polling period before the end of the clock's range.
C38_IdChangeFollowsRecord ==
  /\ [][ \A o \in SoloObservers :
           (flagEvent'.type = "id" /\ flagEvent'.o = o)
             => /\ timeouts'[o] = {}
                /\ \/ isActive'[o] <=> IsOne(getCookie(cookies', hookId'[o]))
                   \/ intervalDue'[o] # -1 ]_vars
  /\ \A o \in SoloObservers, id \in FlagIds :
       []((flagEvent = FlagEv("id", o, 0) /\ hookId[o] = id /\ now + PollTicks <= MaxTime)
            => <>(\/ ~hookMounted[o]
                  \/ hookId[o] # id
                  \/ flagEvent = FlagEv("setFlag", o, flagEvent.arg)
                  \/ isActive[o] <=> RecordValid(o)))
====
